---- MODULE Spec2Model ----
(***************************************************************************)
(* Model of start.py: the provisioning script main() that creates a key    *)
(* pair, a VPC with gateway, route, subnets and security group, a launch   *)
(* configuration, a target group, a load balancer and an auto-scaler, and  *)
(* cleanup(key, vpc), the compensation main() runs when a step raises.     *)
(*                                                                         *)
(* The cloud account is a set of resource records shared by the runs.      *)
(* Every remote call and every file operation is fallible: an action       *)
(* draws the index f of the call that raises (0: none raises).             *)
(* Collections (vpc.subnets.all(), ...) are read without failure and are   *)
(* listed in creation order.                                               *)
(***************************************************************************)
EXTENDS Integers, Sequences, FiniteSets, TLC

VARIABLES
    cloud,      \* the resources that exist in the account
    pc,         \* per run: the statement of main() the run is at
    key,        \* per run: main's variable key (None or the key pair handle)
    vpc,        \* per run: main's variable vpc (None or the VPC handle)
    launchConfig, \* per run: main's variable launchConfig ("" or the name)
    steps,      \* per run: the step functions main() has called, with outcome
    calls,      \* per run: the remote calls and file operations issued, with answer
    cleanups,   \* per run: the invocations of cleanup: arguments and result
    output,     \* per run: the lines printed
    subnetList, \* per run: what vpc.subnets.all() answers createLoadBalancer and createAutoScaler
    args        \* per run: Subnets and VPCZoneIdentifier passed to the create calls

vars == <<cloud, pc, key, vpc, launchConfig, steps, calls, cleanups, output, subnetList, args>>

(* Two processes running start.py against the same account. *)
Runs == {"r1", "r2"}

RunIdx(r) == IF r = "r1" THEN 1 ELSE 2

(* No Subnets and no VPCZoneIdentifier argument has been passed yet. *)
NoArgs == [Subnets |-> <<>>, VPCZoneIdentifier |-> <<>>]

(* The value None of a handle variable of main. *)
None == [kind |-> "None"]

(* The vpc field of a resource that is in no VPC. *)
NoVpc == "none"

APP_NAME == "acs-assignment"

(* uuid.uuid4() at import: one value per process, distinct between processes. *)
CREATION_ID(r) == IF r = "r1" THEN "uuid-1" ELSE "uuid-2"

(* for i in range(3): one public and one private subnet per zone *)
NumZones == 3

(* Subnets a VPC may hold when a step function is applied to a drawn VPC. *)
MaxSubnets == 4

(* How often the driver of SpecTwice may call cleanup on the same handles. *)
MaxCleanupCalls == 2

----------------------------------------------------------------------------
(* Resources *)

(* A resource created by a call of run r, carrying the ID tag `id`. *)
Res(kind, name, r, id, v, n) ==
    [kind |-> kind, name |-> name, by |-> r, tag |-> id, vpc |-> v, n |-> n]

(* Same resource identifier (attachment and tags may differ). *)
Same(x, t) == x.kind = t.kind /\ x.by = t.by /\ x.n = t.n /\ x.name = t.name

Present(t, c) == \E x \in c : Same(x, t)

Remove(c, t) == {x \in c : ~Same(x, t)}

(* A remote call or file operation as it is logged in calls. *)
Call(op, t, res) ==
    [op |-> op, kind |-> t.kind, name |-> t.name, n |-> t.n, by |-> t.by,
     tag |-> t.tag, res |-> res]

(* The calls of `points` that are issued when the f-th raises (f = 0: none  *)
(* raises): an exception ends the function at the raising call.             *)
Issued(points, f) ==
    [i \in 1..(IF f = 0 THEN Len(points) ELSE f) |->
        Call(points[i].op, points[i].t, IF i = f THEN "error" ELSE "ok")]

(* Elements of a finite set of resources as a sequence, in creation order. *)
Ord(x) == RunIdx(x.by) * 10 + x.n

RECURSIVE SeqOf(_)
SeqOf(S) ==
    IF S = {} THEN <<>>
    ELSE LET m == CHOOSE x \in S : \A y \in S : Ord(x) <= Ord(y)
         IN  <<m>> \o SeqOf(S \ {m})

----------------------------------------------------------------------------
(* main(): the order of the steps *)

StepOrder ==
    <<"keypair", "vpc", "gateway", "routetable", "subnets", "secgroups",
      "script", "launchconfig", "targetgroup", "loadbalancer", "autoscaler">>

CreationSteps == {StepOrder[i] : i \in 1..Len(StepOrder)}

StepIdx(s) == CHOOSE i \in 1..Len(StepOrder) : StepOrder[i] = s

(* Mutant of NextStep: the route table step is called before the gateway step. *)
NextStepRouteFirst(s) ==
    CASE s = "vpc" -> "routetable"
      [] s = "routetable" -> "gateway"
      [] s = "gateway" -> "subnets"
      [] StepIdx(s) = Len(StepOrder) -> "done"
      [] OTHER -> StepOrder[StepIdx(s) + 1]

(* The statement after step s of the try block; after the last, main returns. *)
NextStep(s) ==
    IF StepIdx(s) = Len(StepOrder) THEN "done" ELSE StepOrder[StepIdx(s) + 1]

(* Mutant of OnError: the exception is swallowed and main goes on. *)
OnErrorContinue(s) == NextStep(s)

(* An Exception raised in the try block transfers control to the handler. *)
OnError(s) == "except"

(* The step function called at statement s returned (ok) or raised. *)
Finish(r, s, ok) ==
    /\ steps' = [steps EXCEPT ![r] = Append(@, [step |-> s, ok |-> ok])]
    /\ pc' = [pc EXCEPT ![r] = IF ok THEN NextStep(s) ELSE OnError(s)]

Log(r, issued) == calls' = [calls EXCEPT ![r] = @ \o issued]

----------------------------------------------------------------------------
(* The step functions *)

KeyRes(r, id) == Res("key", "key", r, id, NoVpc, 0)

(* KeyName is APP_NAME-key for every run: the account holds one such key. *)
KeyNameTaken(c) == \E x \in c : x.kind = "key"

createKeyPair(r) ==
    /\ pc[r] = "keypair"
    /\ \E f \in 0..2 :
        LET k == KeyRes(r, CREATION_ID(r))
            points == <<[op |-> "create", t |-> k], [op |-> "write", t |-> k]>>
        IN  /\ KeyNameTaken(cloud) => f = 1
            /\ cloud' = IF f = 1 THEN cloud ELSE cloud \cup {k}
            /\ key' = IF f = 0 THEN [key EXCEPT ![r] = k] ELSE key
            /\ Log(r, Issued(points, f))
            /\ Finish(r, "keypair", f = 0)
    /\ UNCHANGED <<vpc, launchConfig, cleanups, output, subnetList, args>>

VpcRes(r, id) == Res("vpc", "vpc", r, id, NoVpc, 0)

(* What the account creates with a VPC: its default security group and its *)
(* main route table, which carry no tags.                                   *)
VpcImplicit(r) ==
    { Res("sg", "default", r, "", r, 0), Res("routetable", "main", r, "", r, 0) }

createVpc(r) ==
    /\ pc[r] = "vpc"
    /\ \E f \in 0..1 :
        LET v == VpcRes(r, CREATION_ID(r))
        IN  /\ cloud' = IF f = 1 THEN cloud ELSE cloud \cup {v} \cup VpcImplicit(r)
            /\ vpc' = IF f = 0 THEN [vpc EXCEPT ![r] = v] ELSE vpc
            /\ Log(r, Issued(<<[op |-> "create", t |-> v]>>, f))
            /\ Finish(r, "vpc", f = 0)
    /\ UNCHANGED <<key, launchConfig, cleanups, output, subnetList, args>>

(* Mutant of VpcSecurityGroups: the security groups of the whole account. *)
AccountSecurityGroups(v, c) == {x \in c : x.kind = "sg"}

(* The collections of a VPC handle: the resources in, or attached to, it. *)
VpcSecurityGroups(v, c) == {x \in c : x.kind = "sg" /\ x.vpc = v.by}

VpcGateways(v, c) == {x \in c : x.kind = "gateway" /\ x.vpc = v.by}

VpcSubnets(v, c) == {x \in c : x.kind = "subnet" /\ x.vpc = v.by}

VpcRouteTables(v, c) == {x \in c : x.kind = "routetable" /\ x.vpc = v.by}

(* group_name != "default" *)
NonDefault(S) == {x \in S : x.name # "default"}

GatewayRes(r, id, v) == Res("gateway", "gateway", r, id, v, 0)

createGateway(r) ==
    /\ pc[r] = "gateway"
    /\ \E f \in 0..2 :
        LET g == GatewayRes(r, CREATION_ID(r), NoVpc)
            attached == GatewayRes(r, CREATION_ID(r), vpc[r].by)
            points == <<[op |-> "create", t |-> g], [op |-> "attach", t |-> g]>>
        IN  /\ cloud' = CASE f = 1 -> cloud
                          [] f = 2 -> cloud \cup {g}
                          [] OTHER -> cloud \cup {attached}
            /\ Log(r, Issued(points, f))
            /\ Finish(r, "gateway", f = 0)
    /\ UNCHANGED <<key, vpc, launchConfig, cleanups, output, subnetList, args>>

RouteRes(r, id, v) == Res("route", "route", r, id, v, 0)

(* gateId and rt are bound by the two loops only when the collections are *)
(* not empty; otherwise rt.create_route(... gateId ...) raises unbound.   *)
createRouteTable(r) ==
    /\ pc[r] = "routetable"
    /\ LET unbound == VpcGateways(vpc[r], cloud) = {} \/ VpcRouteTables(vpc[r], cloud) = {}
           rt == RouteRes(r, CREATION_ID(r), vpc[r].by)
           points == IF unbound THEN <<>> ELSE <<[op |-> "create", t |-> rt]>>
       IN  \E f \in 0..Len(points) :
            /\ cloud' = IF ~unbound /\ f = 0 THEN cloud \cup {rt} ELSE cloud
            /\ Log(r, Issued(points, f))
            /\ Finish(r, "routetable", ~unbound /\ f = 0)
    /\ UNCHANGED <<key, vpc, launchConfig, cleanups, output, subnetList, args>>

(* The k-th create_subnet call of createSubnets: the calls alternate     *)
(* subnets[i] (public, zone i+1) and subnets[i+3] (private, zone i+1).   *)
SubnetOfCall(k, r, id, v) ==
    IF k % 2 = 1
    THEN Res("subnet", "public", r, id, v, (k + 1) \div 2)
    ELSE Res("subnet", "private", r, id, v, (k \div 2) + NumZones)

createSubnets(r) ==
    /\ pc[r] = "subnets"
    /\ \E f \in 0..(2 * NumZones) :
        LET sub(k) == SubnetOfCall(k, r, CREATION_ID(r), vpc[r].by)
            points == [k \in 1..(2 * NumZones) |-> [op |-> "create", t |-> sub(k)]]
            made == IF f = 0 THEN 2 * NumZones ELSE f - 1
        IN  /\ cloud' = cloud \cup {sub(k) : k \in 1..made}
            /\ Log(r, Issued(points, f))
            /\ Finish(r, "subnets", f = 0)
    /\ UNCHANGED <<key, vpc, launchConfig, cleanups, output, subnetList, args>>

SecurityGroupRes(r, id, v) == Res("sg", "security-group", r, id, v, 1)

createSecurityGroups(r) ==
    /\ pc[r] = "secgroups"
    /\ \E f \in 0..4 :
        LET sg == SecurityGroupRes(r, CREATION_ID(r), vpc[r].by)
            points == <<[op |-> "create", t |-> sg], [op |-> "authorize", t |-> sg],
                        [op |-> "authorize", t |-> sg], [op |-> "authorize", t |-> sg]>>
        IN  /\ cloud' = IF f = 1 THEN cloud ELSE cloud \cup {sg}
            /\ Log(r, Issued(points, f))
            /\ Finish(r, "secgroups", f = 0)
    /\ UNCHANGED <<key, vpc, launchConfig, cleanups, output, subnetList, args>>

ScriptFile(r) == Res("file", "webapp.sh", r, "", NoVpc, 0)

(* webAppScript = open("./scripts/webapp.sh", "r").read() *)
readScript(r) ==
    /\ pc[r] = "script"
    /\ \E f \in 0..1 :
        /\ Log(r, Issued(<<[op |-> "read", t |-> ScriptFile(r)]>>, f))
        /\ Finish(r, "script", f = 0)
    /\ UNCHANGED <<cloud, key, vpc, launchConfig, cleanups, output, subnetList, args>>

LaunchConfigRes(r, id) == Res("launchconfig", "launch-config", r, id, NoVpc, 0)

(* The names APP_NAME-launch-config and APP_NAME-target-group are the same *)
(* for every run, and the account holds at most one resource per name.     *)
NameTaken(kind, c) == \E x \in c : x.kind = kind

(* sgId is bound only when the VPC has a non-default security group. *)
createLaunchConfig(r) ==
    /\ pc[r] = "launchconfig"
    /\ LET unbound == NonDefault(VpcSecurityGroups(vpc[r], cloud)) = {}
           lc == LaunchConfigRes(r, CREATION_ID(r))
           points == IF unbound THEN <<>> ELSE <<[op |-> "create", t |-> lc]>>
       IN  \E f \in 0..Len(points) :
            /\ (~unbound /\ NameTaken("launchconfig", cloud)) => f = 1
            /\ cloud' = IF ~unbound /\ f = 0 THEN cloud \cup {lc} ELSE cloud
            /\ launchConfig' = IF ~unbound /\ f = 0
                               THEN [launchConfig EXCEPT ![r] = APP_NAME \o "-launch-config"]
                               ELSE launchConfig
            /\ Log(r, Issued(points, f))
            /\ Finish(r, "launchconfig", ~unbound /\ f = 0)
    /\ UNCHANGED <<key, vpc, cleanups, output, subnetList, args>>

TargetGroupRes(r, id, v) == Res("targetgroup", "target-group", r, id, v, 0)

createTargetGroup(r) ==
    /\ pc[r] = "targetgroup"
    /\ \E f \in 0..1 :
        LET tg == TargetGroupRes(r, CREATION_ID(r), vpc[r].by)
        IN  /\ NameTaken("targetgroup", cloud) => f = 1
            /\ cloud' = IF f = 0 THEN cloud \cup {tg} ELSE cloud
            /\ Log(r, Issued(<<[op |-> "create", t |-> tg]>>, f))
            /\ Finish(r, "targetgroup", f = 0)
    /\ UNCHANGED <<key, vpc, launchConfig, cleanups, output, subnetList, args>>

(* main calls createLoadBalancer(APP_NAME, CREATION_ID, vpc): the required *)
(* parameter targetGroup is missing, so the call raises TypeError before   *)
(* the function body runs and no remote call is issued.                    *)
createLoadBalancer(r) ==
    /\ pc[r] = "loadbalancer"
    /\ Finish(r, "loadbalancer", FALSE)
    /\ UNCHANGED <<cloud, key, vpc, launchConfig, calls, cleanups, output, subnetList, args>>

----------------------------------------------------------------------------
(* The bodies of createLoadBalancer and createAutoScaler, which main never *)
(* reaches: applied to a VPC handle as a caller passing targetGroup would. *)

(* A tag value is the sequence of the parts of the string; `word in value` *)
(* holds when the word is one of them.                                     *)
Contains(value, word) == \E i \in 1..Len(value) : value[i] = word

(* A subnet object as vpc.subnets.all() yields it: the tags Name and ID of *)
(* createSubnets, in the order the account returns them.                   *)
SubnetObject(role, nameFirst, r, i) ==
    LET nameTag == [Key |-> "Name", Value |-> <<APP_NAME, role, "subnet">>]
        idTag == [Key |-> "ID", Value |-> <<CREATION_ID(r)>>]
    IN  [subnet_id |-> Res("subnet", role, r, CREATION_ID(r), r, i),
         tags |-> IF nameFirst THEN <<nameTag, idTag>> ELSE <<idTag, nameTag>>]

(* Mutant of IsPublic: only the first tag is looked at. *)
IsPublicFirstTag(subnet) == Contains(subnet.tags[1].Value, "public")

(* "public" in subnet.tags[0]["Value"] or "public" in subnet.tags[1]["Value"] *)
IsPublic(subnet) ==
    Contains(subnet.tags[1].Value, "public") \/ Contains(subnet.tags[2].Value, "public")

(* subnetIds of createLoadBalancer: the ids of the public subnets, as listed. *)
SubnetIds(lst) ==
    LET pub == SelectSeq(lst, IsPublic)
    IN  [i \in 1..Len(pub) |-> pub[i].subnet_id]

LoadBalancerRes(r, id, v) == Res("loadbalancer", "load-balancer", r, id, v, 0)

ListenerRes(r, id, v) == Res("listener", "listener", r, id, v, 0)

(* secGroup is bound only when the VPC has a non-default security group;   *)
(* subnetIds is always bound, to the empty list when no subnet is public.  *)
createLoadBalancerBody(r) ==
    /\ pc[r] = "loadbalancer.body"
    /\ LET unbound == NonDefault(VpcSecurityGroups(vpc[r], cloud)) = {}
           lb == LoadBalancerRes(r, CREATION_ID(r), vpc[r].by)
           ls == ListenerRes(r, CREATION_ID(r), vpc[r].by)
           points == IF unbound THEN <<>>
                     ELSE <<[op |-> "create", t |-> lb], [op |-> "create", t |-> ls]>>
       IN  \E f \in 0..Len(points) :
            /\ cloud' = CASE unbound \/ f = 1 -> cloud
                          [] f = 2 -> cloud \cup {lb}
                          [] OTHER -> cloud \cup {lb, ls}
            /\ args' = IF unbound THEN args
                       ELSE [args EXCEPT ![r].Subnets = SubnetIds(subnetList[r])]
            /\ Log(r, Issued(points, f))
            /\ Finish(r, "loadbalancer", ~unbound /\ f = 0)
    /\ UNCHANGED <<key, vpc, launchConfig, cleanups, output, subnetList>>

Separator == [kind |-> "text", name |-> ", "]

(* The loop of createAutoScaler from the i-th listed subnet on: the first  *)
(* two public subnets are appended with a separator, the third without,    *)
(* and the loop ends there.                                                *)
RECURSIVE ZoneLoop(_, _, _, _)
ZoneLoop(lst, i, count, subnets) ==
    IF i > Len(lst) THEN subnets
    ELSE IF IsPublic(lst[i])
         THEN IF count <= 1
              THEN ZoneLoop(lst, i + 1, count + 1, subnets \o <<lst[i].subnet_id, Separator>>)
              ELSE IF count = 2
                   THEN subnets \o <<lst[i].subnet_id>>
                   ELSE ZoneLoop(lst, i + 1, count, subnets)
         ELSE ZoneLoop(lst, i + 1, count, subnets)

(* VPCZoneIdentifier: the string as the sequence of its ids and separators. *)
VPCZoneIdentifier(lst) == ZoneLoop(lst, 1, 0, <<>>)

AutoScalerRes(r, id) == Res("autoscaler", "auto-scaling-group", r, id, NoVpc, 0)

createAutoScaler(r) ==
    /\ pc[r] = "autoscaler"
    /\ \E f \in 0..1 :
        LET a == AutoScalerRes(r, CREATION_ID(r))
        IN  /\ cloud' = IF f = 0 THEN cloud \cup {a} ELSE cloud
            /\ args' = [args EXCEPT ![r].VPCZoneIdentifier = VPCZoneIdentifier(subnetList[r])]
            /\ Log(r, Issued(<<[op |-> "create", t |-> a]>>, f))
            /\ Finish(r, "autoscaler", f = 0)
    /\ UNCHANGED <<key, vpc, launchConfig, cleanups, output, subnetList>>

----------------------------------------------------------------------------
(* cleanup(key, vpc) *)

(* key.delete() deletes the key pair of the handle's name. *)
KeyTarget(k, c) ==
    IF \E x \in c : x.kind = "key" THEN CHOOSE x \in c : x.kind = "key" ELSE k

(* Mutant of GatewayCalls: the gateway is deleted without being detached. *)
GatewayCallsNoDetach(gs) == [i \in 1..Len(gs) |-> [op |-> "delete", t |-> gs[i]]]

(* gateway.detach_from_vpc(...) then gateway.delete(), per gateway *)
GatewayCalls(gs) ==
    [i \in 1..(2 * Len(gs)) |->
        IF i % 2 = 1 THEN [op |-> "detach", t |-> gs[(i + 1) \div 2]]
                     ELSE [op |-> "delete", t |-> gs[i \div 2]]]

DeleteCalls(ts) == [i \in 1..Len(ts) |-> [op |-> "delete", t |-> ts[i]]]

(* hasattr(route, "tags"): tags is an attribute of every route table object *)
HasTags(route) == TRUE

(* Mutant of KeyCalls: key.delete() without the test key != None. *)
KeyCallsUnchecked(k, c) ==
    <<[op |-> "delete", t |-> KeyTarget(Res("key", "key", "r1", "", NoVpc, 0), c)]>>

(* if key != None: key.delete() *)
KeyCalls(k, c) ==
    IF k # None THEN <<[op |-> "delete", t |-> KeyTarget(k, c)]>> ELSE <<>>

(* Mutant of SubnetCalls: the loop over the subnets is missing. *)
SubnetCallsNone(v, c) == <<>>

(* for subnet in vpc.subnets.all(): subnet.delete() *)
SubnetCalls(v, c) == DeleteCalls(SeqOf(VpcSubnets(v, c)))

(* Mutant of CleanupPlan: the VPC is deleted first and the key pair last. *)
CleanupPlanVpcFirst(k, v, c) ==
    (IF v # None
     THEN <<[op |-> "delete", t |-> v]>>
          \o DeleteCalls(SeqOf({t \in VpcRouteTables(v, c) : HasTags(t)}))
          \o SubnetCalls(v, c)
          \o GatewayCalls(SeqOf(VpcGateways(v, c)))
          \o DeleteCalls(SeqOf(NonDefault(VpcSecurityGroups(v, c))))
     ELSE <<>>)
    \o
    KeyCalls(k, c)

(* The calls cleanup issues when none raises, in order. *)
CleanupPlan(k, v, c) ==
    KeyCalls(k, c)
    \o
    (IF v # None
     THEN DeleteCalls(SeqOf(NonDefault(VpcSecurityGroups(v, c))))
          \o GatewayCalls(SeqOf(VpcGateways(v, c)))
          \o SubnetCalls(v, c)
          \o DeleteCalls(SeqOf({t \in VpcRouteTables(v, c) : HasTags(t)}))
          \o <<[op |-> "delete", t |-> v]>>
     ELSE <<>>)

(* The answer of a call that does not succeed. *)
Answer(t, c) == IF Present(t, c) THEN "error" ELSE "notfound"

(* Mutant of Raises: a not-found answer is taken as success. *)
RaisesUnlessNotFound(res) == res = "error"

(* Every answer but success comes back as an exception. *)
Raises(res) == res # "ok"

(* Mutant of IssuedCount: each call has its own try block. *)
IssuedCountTolerant(f, raised, len) == len

(* One try block spans all calls: the first exception ends them. *)
IssuedCount(f, raised, len) == IF raised THEN f ELSE len

(* Mutant of CleanupSuccess: the except clause does not reset success. *)
CleanupSuccessAlways(raised) == TRUE

(* success = True ... except Exception: success = False *)
CleanupSuccess(raised) == ~raised

(* The account after a successful call. *)
ApplyCall(c, call) ==
    CASE call.op = "detach" ->
            {IF Same(x, call.t) THEN [x EXCEPT !.vpc = NoVpc] ELSE x : x \in c}
      [] call.op = "delete" /\ call.t.kind = "key" ->
            {x \in c : x.kind # "key"}
      [] call.op = "delete" /\ call.t.kind = "routetable" ->
            {x \in c : ~Same(x, call.t) /\ ~(x.kind = "route" /\ x.vpc = call.t.vpc)}
      [] call.op = "delete" /\ call.t.kind = "vpc" ->
            {x \in c : ~Same(x, call.t)
                       /\ ~(x.vpc = call.t.by /\ (x.tag = "" \/ x.kind = "route"))}
      [] OTHER -> Remove(c, call.t)

(* The account after calls i..n of plan, of which the f-th did not succeed. *)
RECURSIVE ApplyAll(_, _, _, _, _)
ApplyAll(c, plan, i, n, f) ==
    IF i > n THEN c
    ELSE ApplyAll(IF i = f THEN c ELSE ApplyCall(c, plan[i]), plan, i + 1, n, f)

(* cleanup(k, v) by run r, the f-th call answering other than success. *)
cleanup(r, k, v, f) ==
    LET plan == CleanupPlan(k, v, cloud)
        ans == IF f = 0 THEN "ok" ELSE Answer(plan[f].t, cloud)
        raised == Raises(ans)
        n == IF f = 0 THEN Len(plan) ELSE IssuedCount(f, raised, Len(plan))
        issued == [i \in 1..n |-> Call(plan[i].op, plan[i].t, IF i = f THEN ans ELSE "ok")]
    IN  /\ cloud' = ApplyAll(cloud, plan, 1, n, f)
        /\ Log(r, issued)
        /\ cleanups' = [cleanups EXCEPT ![r] =
                           Append(@, [key |-> k, vpc |-> v, issued |-> issued,
                                      result |-> CleanupSuccess(raised)])]

Succeeded == "Cleanup Succeeded!"

Failed == "Cleanup Failed! To avoid unexpected costs please check for remaining resources on AWS."

(* Mutant of Report: success is printed whatever cleanup returned. *)
ReportSuccess(result) == Succeeded

(* if cleanup(key, vpc): print("Cleanup Succeeded!") else: print("Cleanup Failed! ...") *)
Report(result) == IF result THEN Succeeded ELSE Failed

(* except Exception as err: print(err); cleanup(key, vpc); print the outcome *)
mainExcept(r) ==
    /\ pc[r] = "except"
    /\ \E f \in 0..Len(CleanupPlan(key[r], vpc[r], cloud)) :
        /\ cleanup(r, key[r], vpc[r], f)
        /\ output' = [output EXCEPT ![r] =
                         @ \o <<"err", Report(cleanups'[r][Len(cleanups'[r])].result)>>]
    /\ pc' = [pc EXCEPT ![r] = "done"]
    /\ UNCHANGED <<key, vpc, launchConfig, steps, subnetList, args>>

(* KeyboardInterrupt in the try block: it is no Exception, the handler does *)
(* not run and the process ends.                                            *)
interrupt(r) ==
    /\ pc[r] \in CreationSteps
    /\ pc' = [pc EXCEPT ![r] = "killed"]
    /\ UNCHANGED <<cloud, key, vpc, launchConfig, steps, calls, cleanups, output, subnetList, args>>

(* A driver calling cleanup again with the handles of a finished run. *)
cleanupAgain(r) ==
    /\ pc[r] = "done"
    /\ Len(cleanups[r]) \in 1..(MaxCleanupCalls - 1)
    /\ \E f \in 0..Len(CleanupPlan(key[r], vpc[r], cloud)) :
        cleanup(r, key[r], vpc[r], f)
    /\ UNCHANGED <<pc, key, vpc, launchConfig, steps, output, subnetList, args>>

----------------------------------------------------------------------------

Init0 ==
    /\ cloud = {}
    /\ key = [r \in Runs |-> None]
    /\ vpc = [r \in Runs |-> None]
    /\ launchConfig = [r \in Runs |-> ""]
    /\ steps = [r \in Runs |-> <<>>]
    /\ calls = [r \in Runs |-> <<>>]
    /\ cleanups = [r \in Runs |-> <<>>]
    /\ output = [r \in Runs |-> <<>>]
    /\ args = [r \in Runs |-> NoArgs]

(* One process runs start.py. *)
Init ==
    /\ Init0
    /\ subnetList = [r \in Runs |-> <<>>]
    /\ pc = [r \in Runs |-> IF r = "r1" THEN "keypair" ELSE "off"]

(* Two processes run start.py against the same account. *)
InitTwo ==
    /\ Init0
    /\ subnetList = [r \in Runs |-> <<>>]
    /\ pc = [r \in Runs |-> "keypair"]

(* The subnets a drawn VPC lists: role and tag order of each, in order. *)
Listings ==
    UNION {[1..k -> {"public", "private"} \X BOOLEAN] : k \in 0..MaxSubnets}

(* A step function applied to a VPC that holds any of a gateway, a route   *)
(* table and a non-default security group, and any listed subnets.         *)
InitCalls ==
    \E entry \in {"routetable", "launchconfig", "loadbalancer.body", "autoscaler"},
       hasGateway, hasRouteTable, hasGroup \in BOOLEAN, lst \in Listings :
        LET r == "r1"
            id == CREATION_ID(r)
            objs == [i \in 1..Len(lst) |-> SubnetObject(lst[i][1], lst[i][2], r, i)]
        IN  /\ pc = [q \in Runs |-> IF q = r THEN entry ELSE "off"]
            /\ key = [q \in Runs |-> IF q = r THEN KeyRes(r, id) ELSE None]
            /\ vpc = [q \in Runs |-> IF q = r THEN VpcRes(r, id) ELSE None]
            /\ subnetList = [q \in Runs |-> IF q = r THEN objs ELSE <<>>]
            /\ cloud = {KeyRes(r, id), VpcRes(r, id), Res("sg", "default", r, "", r, 0)}
                       \cup (IF hasGateway THEN {GatewayRes(r, id, r)} ELSE {})
                       \cup (IF hasRouteTable THEN {Res("routetable", "main", r, "", r, 0)} ELSE {})
                       \cup (IF hasGroup THEN {SecurityGroupRes(r, id, r)} ELSE {})
                       \cup {objs[i].subnet_id : i \in 1..Len(objs)}
            /\ launchConfig = [q \in Runs |-> ""]
            /\ steps = [q \in Runs |-> <<>>]
            /\ calls = [q \in Runs |-> <<>>]
            /\ cleanups = [q \in Runs |-> <<>>]
            /\ output = [q \in Runs |-> <<>>]
            /\ args = [q \in Runs |-> NoArgs]

NextCalls ==
    \E r \in Runs :
        \/ createRouteTable(r)
        \/ createLaunchConfig(r)
        \/ createLoadBalancerBody(r)
        \/ createAutoScaler(r)

Next ==
    \E r \in Runs :
        \/ createKeyPair(r)
        \/ createVpc(r)
        \/ createGateway(r)
        \/ createRouteTable(r)
        \/ createSubnets(r)
        \/ createSecurityGroups(r)
        \/ readScript(r)
        \/ createLaunchConfig(r)
        \/ createTargetGroup(r)
        \/ createLoadBalancer(r)
        \/ mainExcept(r)
        \/ interrupt(r)

NextTwice == Next \/ \E r \in Runs : cleanupAgain(r)

Spec == Init /\ [][Next]_vars

SpecTwoRuns == InitTwo /\ [][Next]_vars

SpecTwice == Init /\ [][NextTwice]_vars

SpecCalls == InitCalls /\ [][NextCalls]_vars

----------------------------------------------------------------------------
(* Properties *)

StepReturned(r, s) == \E i \in 1..Len(steps[r]) : steps[r][i].step = s /\ steps[r][i].ok

StepRaised(r, s) == \E i \in 1..Len(steps[r]) : steps[r][i].step = s /\ ~steps[r][i].ok

(* No remote call and no file operation of run r has failed. *)
NoFault(r) == \A i \in 1..Len(calls[r]) : calls[r][i].res = "ok"

(* The resources created by the calls of run r that still exist. *)
Remaining(r) == {x \in cloud : x.by = r}

(* C1: when cleanup(key, vpc) returns True, no resource created by the run *)
(* (key pair, VPC, gateway, route, subnets, security group, launch         *)
(* configuration, target group, ...) still exists.                         *)
C1_NoResidueWhenCleanupSucceeds ==
    \A r \in Runs :
        (cleanups[r] # <<>> /\ cleanups[r][1].result) => Remaining(r) = {}

(* C2: when no call fails, main runs all ten creation steps to completion  *)
(* in order, never enters the handler, never invokes cleanup, and every    *)
(* created resource exists at the end.                                     *)
C2_AllStepsWhenNoCallFails ==
    \A r \in Runs :
        NoFault(r) =>
            /\ pc[r] # "except"
            /\ cleanups[r] = <<>>
            /\ pc[r] = "done" =>
                /\ \A s \in CreationSteps \ {"script"} : StepReturned(r, s)
                /\ \A i \in 1..Len(calls[r]) :
                       calls[r][i].op = "create" =>
                           \E x \in cloud : Same(x, calls[r][i])

(* C3: a step that raises ends the pipeline: no step is called after it,   *)
(* the handler runs, and cleanup is invoked exactly once, with main's key  *)
(* and vpc: the handle when the step that produces it returned, else None. *)
C3_FirstErrorAbortsAndCleansUpOnce ==
    \A r \in Runs :
        /\ \A i \in 1..Len(steps[r]) : ~steps[r][i].ok => i = Len(steps[r])
        /\ (steps[r] # <<>> /\ ~steps[r][Len(steps[r])].ok) => pc[r] \in {"except", "done"}
        /\ Len(cleanups[r]) <= 1
        /\ pc[r] = "done" =>
            /\ Len(cleanups[r]) = 1
            /\ cleanups[r][1].key =
                   IF StepReturned(r, "keypair") THEN KeyRes(r, CREATION_ID(r)) ELSE None
            /\ cleanups[r][1].vpc =
                   IF StepReturned(r, "vpc") THEN VpcRes(r, CREATION_ID(r)) ELSE None

(* C3 witness: createSubnets raised after key and VPC were produced, and   *)
(* cleanup has been invoked with both.                                     *)
C3_Witness ==
    \E r \in Runs :
        /\ pc[r] = "done"
        /\ StepRaised(r, "subnets")
        /\ Len(cleanups[r]) = 1
        /\ cleanups[r][1].key # None /\ cleanups[r][1].vpc # None

(* The delete calls of the first cleanup of run r, in the order issued. *)
Deleted(r) ==
    IF cleanups[r] = <<>> THEN <<>>
    ELSE SelectSeq(cleanups[r][1].issued, LAMBDA c : c.op = "delete")

(* Position of a kind of resource in the creation order of main. *)
CreationRank(kind) ==
    CASE kind = "key" -> 1
      [] kind = "vpc" -> 2
      [] kind = "gateway" -> 3
      [] kind = "routetable" -> 4
      [] kind = "subnet" -> 5
      [] kind = "sg" -> 6

(* Position of a kind of resource in the deletion order of cleanup. *)
CleanupRank(kind) ==
    CASE kind = "key" -> 1
      [] kind = "sg" -> 2
      [] kind = "gateway" -> 3
      [] kind = "subnet" -> 4
      [] kind = "routetable" -> 5
      [] kind = "vpc" -> 6

(* C4 as claimed: cleanup deletes in the exact reverse of the creation     *)
(* order: of two delete calls, the earlier one is for the resource created *)
(* later.                                                                  *)
C4_ReverseCreationOrder ==
    \A r \in Runs :
        \A i, j \in 1..Len(Deleted(r)) :
            i < j => CreationRank(Deleted(r)[i].kind) >= CreationRank(Deleted(r)[j].kind)

(* C4 amended: cleanup deletes in one fixed order: the key pair first,     *)
(* then the non-default security groups, the gateways, the subnets, the    *)
(* route tables, and the VPC last.                                         *)
C4_FixedCleanupOrder ==
    \A r \in Runs :
        \A i, j \in 1..Len(Deleted(r)) :
            i < j => CleanupRank(Deleted(r)[i].kind) <= CleanupRank(Deleted(r)[j].kind)

(* C4 witness: a cleanup that deleted a resource of each of the six kinds. *)
C4_Witness ==
    \E r \in Runs :
        /\ cleanups[r] # <<>> /\ cleanups[r][1].result
        /\ \A kind \in {"key", "sg", "gateway", "subnet", "routetable", "vpc"} :
               \E i \in 1..Len(Deleted(r)) : Deleted(r)[i].kind = kind

(* What cleanup(key, vpc) of run r is to delete, of what exists. *)
InScope(r) ==
    {x \in cloud :
        \/ key[r] # None /\ x.kind = "key"
        \/ /\ vpc[r] # None
           /\ \/ Same(x, vpc[r])
              \/ x \in NonDefault(VpcSecurityGroups(vpc[r], cloud))
              \/ x \in VpcGateways(vpc[r], cloud)
              \/ x \in VpcSubnets(vpc[r], cloud)
              \/ x \in VpcRouteTables(vpc[r], cloud)}

(* C5 as claimed: a delete call that raises does not end cleanup: every    *)
(* resource of the run that remains has had its delete call issued.        *)
C5_ContinuesAfterFailedDelete ==
    \A r \in Runs :
        pc[r] = "done" =>
            \A x \in InScope(r) :
                \E i \in 1..Len(Deleted(r)) : Same(x, Deleted(r)[i])

(* C5 amended: the first delete or detach call that raises ends cleanup:   *)
(* it is the last call cleanup issues, and cleanup returns False.          *)
C5_FirstFailedCallEndsCleanup ==
    \A r \in Runs :
        \A j \in 1..Len(cleanups[r]) :
            \A i \in 1..Len(cleanups[r][j].issued) :
                cleanups[r][j].issued[i].res # "ok" =>
                    /\ i = Len(cleanups[r][j].issued)
                    /\ ~cleanups[r][j].result

(* C5 witness: the gateway's delete raised and the subnets, the route      *)
(* table and the VPC remain without a delete call.                         *)
C5_Witness ==
    \E r \in Runs :
        /\ pc[r] = "done"
        /\ \E i \in 1..Len(Deleted(r)) :
               Deleted(r)[i].kind = "gateway" /\ Deleted(r)[i].res = "error"
        /\ \E x \in InScope(r) : x.kind = "subnet"
        /\ \A i \in 1..Len(Deleted(r)) : Deleted(r)[i].kind \notin {"subnet", "routetable", "vpc"}

(* C6: cleanup returns False whenever a delete or detach call it issued    *)
(* failed, whichever call and whatever the partial state.                  *)
C6_FailedCallReportsFalse ==
    \A r \in Runs :
        \A j \in 1..Len(cleanups[r]) :
            (\E i \in 1..Len(cleanups[r][j].issued) : cleanups[r][j].issued[i].res # "ok")
                => cleanups[r][j].result = FALSE

(* C6 witness: the route table step raised, the gateway's delete failed in *)
(* cleanup and the report is False.                                        *)
C6_Witness ==
    \E r \in Runs :
        /\ StepRaised(r, "routetable")
        /\ Len(cleanups[r]) = 1 /\ cleanups[r][1].result = FALSE
        /\ \E i \in 1..Len(Deleted(r)) :
               Deleted(r)[i].kind = "gateway" /\ Deleted(r)[i].res = "error"

(* C7: an interrupt during the creation steps triggers cleanup as a step   *)
(* failure does.                                                           *)
C7_InterruptTriggersCleanup ==
    \A r \in Runs : pc[r] = "killed" => cleanups[r] # <<>>

(* C8 as claimed: a second cleanup with the same key and VPC, after a first *)
(* that deleted everything, returns True: a delete call answering          *)
(* not-found counts as success.                                            *)
C8_SecondCleanupSucceeds ==
    \A r \in Runs :
        (Len(cleanups[r]) >= 2 /\ cleanups[r][1].result) => cleanups[r][2].result

(* C8 amended: a delete call answering not-found raises like any other     *)
(* failure: it is the last call of that cleanup and the cleanup returns    *)
(* False; a second cleanup after a first that deleted everything returns   *)
(* True only when each of its delete calls is answered with success.       *)
C8_NotFoundReportsFalse ==
    \A r \in Runs :
        \A j \in 1..Len(cleanups[r]) :
            LET c == cleanups[r][j]
            IN  /\ \A i \in 1..Len(c.issued) :
                       c.issued[i].res = "notfound" => (i = Len(c.issued) /\ ~c.result)
                /\ (j >= 2 /\ cleanups[r][1].result) =>
                       (c.result <=> \A i \in 1..Len(c.issued) : c.issued[i].res = "ok")

(* C8 witness: the first cleanup deleted key pair and VPC and returned     *)
(* True; in the second the VPC's delete answered not-found and the result  *)
(* is False.                                                               *)
C8_Witness ==
    \E r \in Runs :
        /\ Len(cleanups[r]) = 2
        /\ cleanups[r][1].result /\ cleanups[r][1].vpc # None
        /\ ~cleanups[r][2].result
        /\ \E i \in 1..Len(cleanups[r][2].issued) :
               /\ cleanups[r][2].issued[i].kind = "vpc"
               /\ cleanups[r][2].issued[i].res = "notfound"

(* The steps whose resources a step reads. *)
Reads ==
    { <<"gateway", "routetable">>, <<"secgroups", "launchconfig">>,
      <<"secgroups", "loadbalancer">>, <<"subnets", "loadbalancer">>,
      <<"subnets", "autoscaler">>, <<"launchconfig", "autoscaler">>,
      <<"targetgroup", "autoscaler">> }

PublicSubnets(v, c) == {x \in VpcSubnets(v, c) : x.name = "public"}

(* C9: the steps are called in the declared order, a step is called only   *)
(* after the steps whose resources it reads have returned, and those       *)
(* resources exist when it is called.                                      *)
C9_DependencyOrder ==
    \A r \in Runs :
        /\ \A i \in 1..Len(steps[r]) : steps[r][i].step = StepOrder[i]
        /\ \A d \in Reads :
               \A j \in 1..Len(steps[r]) :
                   steps[r][j].step = d[2] =>
                       \E i \in 1..(j - 1) : steps[r][i].step = d[1] /\ steps[r][i].ok
        /\ \A d \in Reads : pc[r] = d[2] => StepReturned(r, d[1])
        /\ pc[r] = "routetable" =>
               VpcGateways(vpc[r], cloud) # {} /\ VpcRouteTables(vpc[r], cloud) # {}
        /\ pc[r] \in {"launchconfig", "loadbalancer"} =>
               NonDefault(VpcSecurityGroups(vpc[r], cloud)) # {}
        /\ pc[r] = "loadbalancer" => PublicSubnets(vpc[r], cloud) # {}

(* C9 witness: main is at the load balancer step and the nine steps before *)
(* it have returned.                                                       *)
C9_Witness ==
    \E r \in Runs :
        /\ pc[r] = "loadbalancer"
        /\ Len(steps[r]) = 9
        /\ StepReturned(r, "secgroups") /\ StepReturned(r, "subnets")

(* C10: every resource a run creates carries that run's CREATION_ID, and   *)
(* with two runs in one account the delete and detach calls of a run's     *)
(* cleanup are all for resources of that run.                              *)
C10_TagScoping ==
    /\ \A x \in cloud : x \notin VpcImplicit(x.by) => x.tag = CREATION_ID(x.by)
    /\ \A r \in Runs :
           \A i \in 1..Len(calls[r]) :
               calls[r][i].op \in {"delete", "detach"} =>
                   /\ calls[r][i].by = r
                   /\ calls[r][i].tag \in {CREATION_ID(r), ""}

(* C10 witness: a run's cleanup has deleted subnets of its own while        *)
(* subnets tagged with the other run's ID exist, which remain.             *)
C10_Witness ==
    \E r, q \in Runs :
        /\ r # q
        /\ pc[r] = "done"
        /\ \E i \in 1..Len(calls[r]) :
               /\ calls[r][i].op = "delete" /\ calls[r][i].kind = "subnet"
               /\ calls[r][i].res = "ok"
        /\ \E x \in cloud : x.kind = "subnet" /\ x.tag = CREATION_ID(q)

(* A create call for a resource of this kind has been issued by run r. *)
CreateIssued(r, kind) ==
    \E i \in 1..Len(calls[r]) : calls[r][i].op = "create" /\ calls[r][i].kind = kind

(* The listed subnets whose Name tag marks them public. *)
NamedPublic(lst) ==
    {lst[i].subnet_id : i \in {j \in 1..Len(lst) :
        \E t \in 1..Len(lst[j].tags) :
            lst[j].tags[t].Key = "Name" /\ Contains(lst[j].tags[t].Value, "public")}}

(* C11: the Subnets list createLoadBalancer passes to create_load_balancer *)
(* holds exactly the subnets whose Name tag marks them public, each once,  *)
(* whatever the order in which subnets and tags are listed.                *)
C11_SubnetsArePublicOnes ==
    \A r \in Runs :
        CreateIssued(r, "loadbalancer") =>
            /\ {args[r].Subnets[i] : i \in 1..Len(args[r].Subnets)} = NamedPublic(subnetList[r])
            /\ Len(args[r].Subnets) = Cardinality(NamedPublic(subnetList[r]))

(* C11 witness: of subnets listed private, public, private, public, the    *)
(* second with its ID tag first, the two public ones are passed.           *)
C11_Witness ==
    \E r \in Runs :
        /\ CreateIssued(r, "loadbalancer")
        /\ Len(subnetList[r]) = 4
        /\ subnetList[r][1].subnet_id.name = "private"
        /\ subnetList[r][2].subnet_id.name = "public"
        /\ subnetList[r][2].tags[1].Key = "ID"
        /\ subnetList[r][3].subnet_id.name = "private"
        /\ subnetList[r][4].subnet_id.name = "public"
        /\ args[r].Subnets = <<subnetList[r][2].subnet_id, subnetList[r][4].subnet_id>>

Reachable(r) ==
    LET plan == CleanupPlan(key[r], vpc[r], cloud)
    IN  {x \in cloud :
            \/ \E i \in 1..Len(plan) : Same(x, plan[i].t)
            \/ vpc[r] # None /\ x.vpc = vpc[r].by /\ (x.tag = "" \/ x.kind = "route")}

(* C13: when a step has raised, every resource a creation call of the run  *)
(* has created is reachable by the cleanup that follows, also when the     *)
(* step raised after the creation call had returned.                       *)
C13_CreatedIsReachable ==
    \A r \in Runs : pc[r] = "except" => Remaining(r) \subseteq Reachable(r)

(* The outcome lines printed by run r. *)
Outcomes(r) == SelectSeq(output[r], LAMBDA line : line \in {Succeeded, Failed})

(* C14: after a step failure the outcome of cleanup is reported exactly    *)
(* once, the success line if and only if cleanup returned True and the     *)
(* directive if and only if it returned False, and the exception of a step *)
(* or of a delete call does not leave main.                                *)
C14_OutcomeReportedOnce ==
    \A r \in Runs :
        /\ (steps[r] # <<>> /\ ~steps[r][Len(steps[r])].ok) => pc[r] \in {"except", "done"}
        /\ pc[r] # "done" => Outcomes(r) = <<>>
        /\ pc[r] = "done" =>
            /\ Len(cleanups[r]) = 1
            /\ Len(Outcomes(r)) = 1
            /\ Outcomes(r)[1] = Succeeded <=> cleanups[r][1].result
            /\ Outcomes(r)[1] = Failed <=> ~cleanups[r][1].result

(* C14 witness: createSubnets raised, a delete call of cleanup failed and  *)
(* the directive is the one outcome line.                                  *)
C14_Witness ==
    \E r \in Runs :
        /\ pc[r] = "done"
        /\ StepRaised(r, "subnets")
        /\ \E i \in 1..Len(cleanups[r][1].issued) : cleanups[r][1].issued[i].res = "error"
        /\ Outcomes(r) = <<Failed>>

(* Calls a and b are for the same resource. *)
SameTarget(a, b) == a.kind = b.kind /\ a.name = b.name /\ a.n = b.n /\ a.by = b.by

(* C15: in cleanup a gateway's delete call directly follows a successful   *)
(* detach of that gateway, and a gateway whose detach failed gets no       *)
(* delete call.                                                            *)
C15_DetachBeforeDelete ==
    \A r \in Runs :
        \A j \in 1..Len(cleanups[r]) :
            LET issued == cleanups[r][j].issued
            IN  \A i \in 1..Len(issued) :
                    /\ (issued[i].op = "delete" /\ issued[i].kind = "gateway") =>
                           /\ i > 1
                           /\ issued[i - 1].op = "detach"
                           /\ SameTarget(issued[i - 1], issued[i])
                           /\ issued[i - 1].res = "ok"
                    /\ (issued[i].op = "detach" /\ issued[i].res # "ok") =>
                           \A k \in 1..Len(issued) :
                               ~(issued[k].op = "delete" /\ SameTarget(issued[k], issued[i]))

(* C15 witness: the gateway was detached and then deleted by cleanup. *)
C15_Witness ==
    \E r \in Runs :
        /\ pc[r] = "done"
        /\ \E i \in 2..Len(cleanups[r][1].issued) :
               /\ cleanups[r][1].issued[i].op = "delete"
               /\ cleanups[r][1].issued[i].kind = "gateway"
               /\ cleanups[r][1].issued[i].res = "ok"
               /\ cleanups[r][1].issued[i - 1].op = "detach"
        /\ \A x \in cloud : x.kind # "gateway"

(* An earlier call of `issued` than the i-th deleted the resource of call c. *)
DeletedBefore(issued, i, c) ==
    \E k \in 1..(i - 1) :
        issued[k].op = "delete" /\ issued[k].res = "ok" /\ SameTarget(issued[k], c)

(* C16: vpc.delete() is issued only after a successful delete of every     *)
(* non-default security group, gateway, subnet and route table of the VPC, *)
(* and never when one of those deletes failed.                             *)
C16_VpcDeletedLast ==
    \A r \in Runs :
        \A j \in 1..Len(cleanups[r]) :
            LET issued == cleanups[r][j].issued
                v == cleanups[r][j].vpc
            IN  \A i \in 1..Len(issued) :
                    /\ (issued[i].op = "delete" /\ issued[i].kind = "vpc") =>
                           /\ \A k \in 1..(i - 1) : issued[k].res = "ok"
                           /\ \A m \in 1..Len(calls[r]) :
                                  (/\ calls[r][m].res = "ok"
                                   /\ \/ calls[r][m].op = "create" /\ calls[r][m].kind \in {"sg", "subnet"}
                                      \/ calls[r][m].op = "attach")
                                      => DeletedBefore(issued, i, calls[r][m])
                           /\ \E k \in 1..(i - 1) :
                                  issued[k].op = "delete" /\ issued[k].kind = "routetable"
                           /\ NonDefault(VpcSecurityGroups(v, cloud)) = {}
                           /\ VpcGateways(v, cloud) = {}
                           /\ VpcSubnets(v, cloud) = {}
                           /\ VpcRouteTables(v, cloud) = {}
                    /\ (issued[i].res # "ok" /\ issued[i].kind # "vpc") =>
                           \A k \in 1..Len(issued) : issued[k].kind # "vpc"

(* C16 witness: cleanup deleted the security group, the gateway, six       *)
(* subnets and the route table, and then issued vpc.delete().              *)
C16_Witness ==
    \E r \in Runs :
        /\ pc[r] = "done"
        /\ StepReturned(r, "secgroups")
        /\ LET issued == cleanups[r][1].issued
           IN  /\ issued # <<>>
               /\ issued[Len(issued)].op = "delete" /\ issued[Len(issued)].kind = "vpc"
               /\ Len(SelectSeq(issued, LAMBDA c : c.kind = "subnet" /\ c.res = "ok")) = 2 * NumZones
               /\ \E k \in 1..Len(issued) : issued[k].kind = "sg" /\ issued[k].res = "ok"

(* C17: when createKeyPair raised, cleanup gets None for key and VPC,      *)
(* issues no call and returns True; when createVpc raised, cleanup issues  *)
(* one call, the delete of the key pair.                                   *)
C17_CleanupOfEarlyFailure ==
    \A r \in Runs :
        pc[r] = "done" =>
            /\ StepRaised(r, "keypair") =>
                   /\ cleanups[r][1].key = None /\ cleanups[r][1].vpc = None
                   /\ cleanups[r][1].issued = <<>>
                   /\ cleanups[r][1].result = TRUE
            /\ StepRaised(r, "vpc") =>
                   /\ Len(cleanups[r][1].issued) = 1
                   /\ cleanups[r][1].issued[1].op = "delete"
                   /\ cleanups[r][1].issued[1].kind = "key"

(* C17 witness: createKeyPair raised and cleanup returned True without a call. *)
C17_Witness ==
    \E r \in Runs :
        /\ pc[r] = "done"
        /\ StepRaised(r, "keypair")
        /\ cleanups[r][1].issued = <<>>
        /\ cleanups[r][1].result = TRUE
        /\ Outcomes(r) = <<Succeeded>>

(* The subnet ids named in a VPCZoneIdentifier value. *)
ZoneIds(z) == {z[i] : i \in {j \in 1..Len(z) : z[j] # Separator}}

(* A list of ids with a separator between neighbours and none at the end. *)
WellFormed(z) ==
    /\ \A i \in 1..Len(z) : (z[i] = Separator) <=> (i % 2 = 0)
    /\ z # <<>> => z[Len(z)] # Separator

====
